---- MODULE Spec2Model ----
(***************************************************************************)
(* State-machine model of the two command-line workflows of                *)
(* download_raw_seq:                                                       *)
(*   scripts/download_raw_reads.py  (batch workflow, CSV input)            *)
(*   scripts/download_runs_file.py  (single-study workflow)                *)
(* The file system is modelled as a set of directories and a set of files, *)
(* both addressed by absolute paths (sequences of components); relative    *)
(* paths are resolved against the process's current directory at the time  *)
(* of each call, as the operating system does.  External tools (esearch,   *)
(* prefetch, fastq-dump, pigz, find, mv) and file-system calls may fail:   *)
(* each failure is a nondeterministic choice, at most MaxFaults per run.   *)
(***************************************************************************)
EXTENDS Integers, Sequences, FiniteSets, TLC

VARIABLES
  wf,            \* which program runs: "batch", "single" or "csv"
  pc,            \* position in the running function
  cwd,           \* the process's current working directory (absolute)
  dirs,          \* directories that exist (absolute paths)
  files,         \* data files that exist: [dir, acc, pre, ext]
  runfiles,      \* run-list files that exist: [dir, project, content]
  raised,        \* exception that left download_sra_data / read_csv_input
  faults,        \* failures injected so far
  log,           \* messages of the current iteration: <<level, stage>>
  invoked,       \* external tools started in the current iteration
  failed,        \* stages of the current iteration in which something failed
  last,          \* last stage the current iteration executed
  idx,           \* batch: 1-based position in zip(project_ids, study_names)
  project_ids,   \* batch argument
  study_given,   \* batch argument: study_names is not None
  study_names,   \* batch argument (when given)
  output_folder, \* argument: [abs, comps]
  runs_only,     \* batch argument
  runs_file,     \* single: [exists, content]
  invocation,    \* single: number of the current invocation
  move_failed,   \* single: <<stage, acc>> of file moves that failed
  rows,          \* csv: the rows csv.reader yields
  row,           \* csv: index of the next row
  csv_studies,   \* csv: study_names built so far
  csv_projects,  \* csv: project_ids built so far
  warned         \* csv: indices of rows a warning was logged for

vars == <<wf, pc, cwd, dirs, files, runfiles, raised, faults, log, invoked,
          failed, last, idx, project_ids, study_given, study_names,
          output_folder, runs_only, runs_file, invocation, move_failed,
          rows, row, csv_studies, csv_projects, warned>>

batchArgs == <<project_ids, study_given, study_names, output_folder, runs_only>>
singleVars == <<runs_file, invocation, move_failed>>
csvVars == <<rows, row, csv_studies, csv_projects, warned>>

----------------------------------------------------------------------------
(* Bounds of the model.                                                    *)
MaxPairs == 2
MaxFaults == 2

Projects == {"P1", "P2"}
Studies == {"S1"}

(* The archive's answer for a project: its run accessions.                 *)
RunsOf(p) == IF p = "P1" THEN {"R1", "R2"} ELSE {"R3"}

SeqsUpTo(S, n) == UNION {[1..k -> S] : k \in 1..n}

Min(a, b) == IF a < b THEN a ELSE b

----------------------------------------------------------------------------
(* Paths.                                                                  *)
Home == <<"home">>
OutputFolders == {[abs |-> TRUE, comps |-> <<"data">>],
                  [abs |-> FALSE, comps |-> <<"out">>]}

Div(p, name) == [abs |-> p.abs, comps |-> Append(p.comps, name)]
AbsAt(p, wd) == IF p.abs THEN p.comps ELSE wd \o p.comps
Abs(p) == AbsAt(p, cwd)
Parent(a) == SubSeq(a, 1, Len(a) - 1)
Prefixes(a) == {SubSeq(a, 1, k) : k \in 0..Len(a)}
Under(a, d) == Len(d) < Len(a) /\ SubSeq(a, 1, Len(d)) = d
Within(a, d) == a = d \/ Under(a, d)

(* mkdir(exist_ok=True) succeeds when the directory exists or its parent   *)
(* does; mkdir(parents=True, exist_ok=True) creates the missing parents.   *)
MkdirPossible(a) == a \in dirs \/ Parent(a) \in dirs

Outcomes == IF faults < MaxFaults THEN {"ok", "fail"} ELSE {"ok"}
Cost(o) == IF o = "ok" THEN 0 ELSE 1
Partial(S) == SUBSET S \ {S}

(* variant: the tool is started once even when no line is read (xargs).   *)
ParallelStartsAlways(lines, tool) == {"parallel", tool}
(* "... | parallel -j0 tool {}": one job per input line, none without.    *)
ParallelStarts(lines, tool) ==
  IF lines = {} THEN {"parallel"} ELSE {"parallel", tool}

File(d, a, p, e) == [dir |-> d, acc |-> a, pre |-> p, ext |-> e]
FilesIn(d, e) == {f \in files : f.dir = d /\ f.ext = e}
FilesUnder(d, e) == {f \in files : Within(f.dir, d) /\ f.ext = e}
MoveTo(S, d) == {[f EXCEPT !.dir = d] : f \in S}

----------------------------------------------------------------------------
(* Batch workflow: download_sra_data of download_raw_reads.py              *)

output_path == output_folder
(* variant: the lengths are not compared, zip truncates.                  *)
LengthsUnchecked == TRUE
(* lines 38-41: study_names is None, or as long as project_ids.            *)
LengthsMatch == ~study_given \/ Len(study_names) = Len(project_ids)
NumPairs == IF study_given THEN Min(Len(project_ids), Len(study_names))
            ELSE Len(project_ids)
ProjectAt(i) == project_ids[i]
StudyAt(i) == IF study_given THEN study_names[i] ELSE project_ids[i]
ProjectRunsDirAt(i) == Div(output_path, StudyAt(i))
ProjectDirAt(i) == Div(ProjectRunsDirAt(i), ProjectAt(i))
project == ProjectAt(idx)
study_name == StudyAt(idx)
project_runs_dir == ProjectRunsDirAt(idx)
run_file == project
project_dir == ProjectDirAt(idx)
fastq_dir == Div(project_dir, "fastq")
sra_dir == Div(project_dir, "sra")
NewName(f) == [f EXCEPT !.pre = <<study_name>> \o f.pre]

InitBatch ==
  /\ wf = "batch" /\ pc = "b_start"
  /\ project_ids \in SeqsUpTo(Projects, MaxPairs)
  /\ study_given \in BOOLEAN
  /\ study_names \in IF study_given THEN SeqsUpTo(Studies, MaxPairs) ELSE {<<>>}
  /\ output_folder \in OutputFolders
  /\ runs_only \in BOOLEAN
  /\ idx = 0
  /\ runs_file = [exists |-> FALSE, content |-> {}]
  /\ invocation = 1 /\ move_failed = {}
  /\ rows = <<>> /\ row = 1 /\ csv_studies = <<>> /\ csv_projects = <<>>
  /\ warned = {}

InitCommon ==
  /\ cwd = Home
  /\ dirs = {<<>>, Home}
  /\ files = {} /\ runfiles = {}
  /\ raised = "none" /\ faults = 0
  /\ log = {} /\ invoked = {} /\ failed = {} /\ last = "none"

(* The shell's "> {run_file_path}": the file is created or truncated.      *)
WriteRunFile(d, p, c) ==
  {r \in runfiles : ~(r.dir = d /\ r.project = p)}
    \cup {[dir |-> d, project |-> p, content |-> c]}
(* variant: the run-list file is not found where it is read.              *)
ReadNothing(wd) == {}
(* "cat {run_file_path}" run in directory wd: the accessions it prints.    *)
ReadRunFile(wd) ==
  UNION {r.content : r \in {x \in runfiles :
            x.dir = AbsAt(project_runs_dir, wd) /\ x.project = run_file}}

(* except Exception (lines 191-192): logged, the loop goes on.             *)
CaughtByOuter(stage) ==
  /\ pc' = "b_loop" /\ idx' = idx + 1
  /\ failed' = failed \cup {stage} /\ last' = stage
  /\ log' = log \cup {<<"error", "outer">>}
(* variant: a logged error also ends the iteration (a continue).          *)
StageDoneOrAbort(stage, next, bad) ==
  /\ pc' = (IF bad THEN "b_loop" ELSE next)
  /\ idx' = (IF bad THEN idx + 1 ELSE idx)
  /\ failed' = (IF bad THEN failed \cup {stage} ELSE failed) /\ last' = stage
  /\ log' = (IF bad THEN log \cup {<<"error", stage>>} ELSE log)
(* a stage that ran to its end; bad is TRUE when it logged an error.       *)
StageDone(stage, next, bad) ==
  /\ pc' = next /\ idx' = idx
  /\ failed' = (IF bad THEN failed \cup {stage} ELSE failed) /\ last' = stage
  /\ log' = (IF bad THEN log \cup {<<"error", stage>>} ELSE log)

(* lines 33-41: the output folder is created, then the lengths compared.   *)
Batch_Start ==
  /\ wf = "batch" /\ pc = "b_start"
  /\ \E o \in Outcomes :
       /\ faults' = faults + Cost(o)
       /\ IF o = "fail"
          THEN raised' = "OSError" /\ pc' = "done" /\ UNCHANGED <<dirs, idx>>
          ELSE /\ dirs' = dirs \cup Prefixes(Abs(output_path))
               /\ IF LengthsMatch
                  THEN raised' = raised /\ pc' = "b_loop" /\ idx' = 1
                  ELSE raised' = "ValueError" /\ pc' = "done" /\ idx' = idx
  /\ UNCHANGED <<wf, cwd, files, runfiles, log, invoked, failed, last,
                 batchArgs, singleVars, csvVars>>

(* lines 44-53: next pair of the zip; the study directory is created       *)
(* outside the try block.                                                  *)
Batch_LoopHead ==
  /\ wf = "batch" /\ pc = "b_loop"
  /\ IF idx > NumPairs
     THEN pc' = "done" /\ UNCHANGED <<dirs, raised, faults, log, invoked,
                                       failed, last>>
     ELSE \E o \in Outcomes :
            LET d == Abs(project_runs_dir) IN
            /\ faults' = faults + Cost(o)
            /\ IF o = "ok" /\ MkdirPossible(d)
               THEN /\ dirs' = dirs \cup {d} /\ pc' = "b_try"
                    /\ raised' = raised
               ELSE /\ dirs' = dirs /\ pc' = "done" /\ raised' = "OSError"
            /\ log' = {} /\ invoked' = {} /\ failed' = {} /\ last' = "loop"
  /\ UNCHANGED <<wf, cwd, files, runfiles, idx, batchArgs, singleVars, csvVars>>

(* lines 56-63: runs_only, the run information table is written.           *)
Batch_RunsOnly ==
  /\ wf = "batch" /\ pc = "b_try" /\ runs_only
  /\ invoked' = invoked \cup {"esearch", "efetch"}
  /\ LET d == Abs(project_runs_dir) IN
     \E o \in Outcomes :
       /\ faults' = faults + Cost(o)
       /\ IF d \in dirs
          THEN runfiles' = WriteRunFile(d, run_file,
                              IF o = "ok" THEN RunsOf(project) ELSE {})
          ELSE runfiles' = runfiles
       /\ IF o = "ok" /\ d \in dirs
          THEN /\ pc' = "b_loop" /\ idx' = idx + 1 /\ last' = "runs_only"
               /\ failed' = failed /\ log' = log \cup {<<"info", "completed">>}
          ELSE CaughtByOuter("runs_only")
  /\ UNCHANGED <<wf, cwd, dirs, files, raised, batchArgs, singleVars, csvVars>>

(* lines 66-68: the project directory.                                     *)
Batch_MkProjectDir ==
  /\ wf = "batch" /\ pc = "b_try" /\ ~runs_only
  /\ LET d == Abs(project_dir) IN
     \E o \in Outcomes :
       /\ faults' = faults + Cost(o)
       /\ IF o = "ok" /\ MkdirPossible(d)
          THEN dirs' = dirs \cup {d} /\ StageDone("mkproject", "b_resolve", FALSE)
          ELSE dirs' = dirs /\ CaughtByOuter("mkproject")
  /\ UNCHANGED <<wf, cwd, files, runfiles, raised, invoked, batchArgs,
                 singleVars, csvVars>>

(* lines 70-77: the run accessions are written to the run-list file; an    *)
(* empty or missing file ends the iteration.                               *)
Batch_Resolve ==
  /\ wf = "batch" /\ pc = "b_resolve"
  /\ invoked' = invoked \cup {"esearch", "efetch"}
  /\ LET d == Abs(project_runs_dir) IN
     \E o \in Outcomes \cup (IF faults < MaxFaults THEN {"empty"} ELSE {}) :
       /\ faults' = faults + Cost(o)
       /\ IF d \in dirs
          THEN runfiles' = WriteRunFile(d, run_file,
                              IF o = "ok" THEN RunsOf(project) ELSE {})
          ELSE runfiles' = runfiles
       /\ IF o = "fail" \/ d \notin dirs
          THEN CaughtByOuter("resolve")
          ELSE IF o = "empty"
          THEN /\ pc' = "b_loop" /\ idx' = idx + 1 /\ last' = "resolve"
               /\ failed' = failed \cup {"resolve"}
               /\ log' = log \cup {<<"error", "resolve">>}
          ELSE StageDone("resolve", "b_prefetch", FALSE)
  /\ UNCHANGED <<wf, cwd, dirs, files, raised, batchArgs, singleVars, csvVars>>

(* lines 79-91: chdir to the project directory, then                     *)
(* "cat {run_file_path} | parallel -j0 prefetch {}" there.  The exit       *)
(* status of the pipeline is that of parallel: a cat that finds no file    *)
(* feeds it nothing and it exits 0.  prefetch puts each record in a        *)
(* directory named after its accession.                                    *)
Batch_Prefetch ==
  /\ wf = "batch" /\ pc = "b_prefetch"
  /\ LET pd == Abs(project_dir) IN
     \/ \E c \in Outcomes :
          /\ c = "fail" \/ pd \notin dirs
          /\ faults' = faults + Cost(c)
          /\ CaughtByOuter("chdir")
          /\ UNCHANGED <<cwd, dirs, files, invoked>>
     \/ pd \in dirs /\
          LET accs == ReadRunFile(pd)
              Fetched(S) == {File(Append(pd, a), a, <<>>, "sra") : a \in S}
          IN
          /\ cwd' = pd
          /\ invoked' = invoked \cup ParallelStarts(accs, "prefetch")
          /\ \E o \in (IF accs = {} THEN {"ok"} ELSE Outcomes) :
               /\ faults' = faults + Cost(o)
               /\ IF o = "ok"
                  THEN /\ files' = files \cup Fetched(accs)
                       /\ dirs' = dirs \cup {Append(pd, a) : a \in accs}
                       /\ StageDone("prefetch", "b_flatten", FALSE)
                  ELSE \E got \in Partial(accs) :
                       /\ files' = files \cup Fetched(got)
                       /\ dirs' = dirs \cup {Append(pd, a) : a \in got}
                       /\ pc' = "b_loop" /\ idx' = idx + 1
                       /\ last' = "prefetch"
                       /\ failed' = failed \cup {"prefetch"}
                       /\ log' = log \cup {<<"error", "prefetch">>}
  /\ UNCHANGED <<wf, runfiles, raised, batchArgs, singleVars, csvVars>>

(* "find . -type d -empty -delete": directories below wd whose subtree     *)
(* holds no file go.                                                       *)
EmptyDirsBelow(wd, fs) ==
  {d \in dirs : Under(d, wd) /\ ~\E f \in fs : Within(f.dir, d)}

(* lines 93-107: every .sra below the working directory is moved into it,  *)
(* empty directories are deleted; a failure is logged and the stage        *)
(* sequence goes on.                                                       *)
Batch_Flatten ==
  /\ wf = "batch" /\ pc = "b_flatten"
  /\ invoked' = invoked \cup {"find"}
  /\ LET nested == {f \in FilesUnder(cwd, "sra") : f.dir # cwd} IN
     \E o \in Outcomes :
       /\ faults' = faults + Cost(o)
       /\ IF o = "ok"
          THEN /\ files' = (files \ nested) \cup MoveTo(nested, cwd)
               /\ dirs' = dirs \ EmptyDirsBelow(cwd, files')
               /\ StageDone("flatten", "b_convert", FALSE)
          ELSE \E S \in Partial(nested) :
               /\ files' = (files \ S) \cup MoveTo(S, cwd)
               /\ dirs' = dirs
               /\ StageDone("flatten", "b_convert", TRUE)
  /\ UNCHANGED <<wf, cwd, runfiles, raised, batchArgs, singleVars, csvVars>>

(* fastq-dump --split-files --origfmt on the records S, output in wd.      *)
Converted(S, wd) == {File(wd, f.acc, <<>>, "fastq") : f \in S}
(* pigz -1 on the files S.                                                 *)
Compressed(S) == {[f EXCEPT !.ext = "fastq.gz"] : f \in S}

(* lines 109-117: "ls *.sra | parallel -j0 'fastq-dump ...'" in the        *)
(* working directory; parallel starts one fastq-dump per line it reads.    *)
Batch_Convert ==
  /\ wf = "batch" /\ pc = "b_convert"
  /\ LET sra == FilesIn(cwd, "sra") IN
     /\ invoked' = invoked \cup ParallelStarts(sra, "fastq-dump")
     /\ \E o \in (IF sra = {} THEN {"ok"} ELSE Outcomes) :
          /\ faults' = faults + Cost(o)
          /\ IF o = "ok"
             THEN /\ files' = files \cup Converted(sra, cwd)
                  /\ StageDone("convert", "b_compress", FALSE)
             ELSE \E S \in Partial(sra) :
                  /\ files' = files \cup Converted(S, cwd)
                  /\ StageDone("convert", "b_compress", TRUE)
  /\ UNCHANGED <<wf, cwd, dirs, runfiles, raised, batchArgs, singleVars, csvVars>>

(* lines 119-131: pigz runs when project_dir.glob("*.fastq") finds files,  *)
(* otherwise a warning is logged.                                          *)
Batch_Compress ==
  /\ wf = "batch" /\ pc = "b_compress"
  /\ LET fastq_files == FilesIn(Abs(project_dir), "fastq")
         here == FilesIn(cwd, "fastq")
     IN
     IF fastq_files # {}
     THEN /\ invoked' = invoked \cup {"pigz"}
          /\ \E o \in Outcomes :
               /\ faults' = faults + Cost(o)
               /\ IF o = "ok"
                  THEN /\ files' = (files \ here) \cup Compressed(here)
                       /\ StageDone("compress", "b_mkdirs", FALSE)
                  ELSE \E S \in Partial(here) :
                       /\ files' = (files \ S) \cup Compressed(S)
                       /\ StageDone("compress", "b_mkdirs", TRUE)
     ELSE /\ pc' = "b_mkdirs" /\ last' = "compress"
          /\ log' = log \cup {<<"warning", "compress">>}
          /\ UNCHANGED <<files, faults, invoked, failed, idx>>
  /\ UNCHANGED <<wf, cwd, dirs, runfiles, raised, batchArgs, singleVars, csvVars>>

(* lines 133-138: fastq/ and sra/ below the project directory.             *)
Batch_MkDirs ==
  /\ wf = "batch" /\ pc = "b_mkdirs"
  /\ LET fd == Abs(fastq_dir)
         sd == Abs(sra_dir)
     IN
     \E o \in Outcomes \cup (IF faults < MaxFaults THEN {"fail_sra"} ELSE {}) :
       /\ faults' = faults + Cost(o)
       /\ IF o = "ok" /\ MkdirPossible(fd)
          THEN dirs' = dirs \cup {fd, sd} /\ StageDone("mkdirs", "b_mvfastq", FALSE)
          ELSE /\ dirs' = (IF o = "fail_sra" /\ MkdirPossible(fd)
                           THEN dirs \cup {fd} ELSE dirs)
               /\ CaughtByOuter("mkdirs")
  /\ UNCHANGED <<wf, cwd, files, runfiles, raised, invoked, batchArgs,
                 singleVars, csvVars>>

(* "mv *.{ext} {sub}/" in the working directory, run when                  *)
(* project_dir.glob finds such files (lines 140-149 and 151-160).          *)
Batch_Mv(stage, next, ext, sub) ==
  /\ LET found == FilesIn(Abs(project_dir), ext)
         here == FilesIn(cwd, ext)
     IN
     IF found # {}
     THEN /\ invoked' = invoked \cup {"mv"}
          /\ \E o \in Outcomes :
               /\ faults' = faults + Cost(o)
               /\ IF o = "ok" /\ Append(cwd, sub) \in dirs
                  THEN /\ files' = (files \ here) \cup MoveTo(here, Append(cwd, sub))
                       /\ StageDone(stage, next, FALSE)
                  ELSE \E S \in (IF Append(cwd, sub) \in dirs
                                 THEN Partial(here) ELSE {{}}) :
                       /\ files' = (files \ S) \cup MoveTo(S, Append(cwd, sub))
                       /\ StageDone(stage, next, TRUE)
     ELSE /\ StageDone(stage, next, FALSE)
          /\ UNCHANGED <<files, faults, invoked>>
  /\ UNCHANGED <<wf, cwd, dirs, runfiles, raised, batchArgs, singleVars, csvVars>>

Batch_MoveFastq ==
  /\ wf = "batch" /\ pc = "b_mvfastq"
  /\ Batch_Mv("mvfastq", "b_mvsra", "fastq.gz", "fastq")

Batch_MoveSra ==
  /\ wf = "batch" /\ pc = "b_mvsra"
  /\ Batch_Mv("mvsra", "b_rename", "sra", "sra")

Orders(S) == {o \in [1..Cardinality(S) -> S] :
                \A i, j \in 1..Cardinality(S) : o[i] = o[j] => i = j}
NumFailures(oc) == Cardinality({f \in DOMAIN oc : oc[f] # "ok"})
FileOutcomes(S) == {oc \in [S -> {"ok", "rename_fail", "move_fail"}] :
                      faults + NumFailures(oc) =< MaxFaults}

(* lines 165-182: each file the glob listed is renamed in place to         *)
(* {study_name}_{name} and then moved to dest; an OSError of either call   *)
(* (also the rename of a file that is no longer there) is logged and the   *)
(* loop goes on.  Result: the files afterwards, and whether an error was   *)
(* logged.                                                                 *)
RECURSIVE RenameLoop(_, _, _, _, _)
RenameLoop(order, oc, dest, fs, bad) ==
  IF order = <<>> THEN [files |-> fs, bad |-> bad]
  ELSE LET f == Head(order)
           new_path == NewName(f)
           moved == [new_path EXCEPT !.dir = dest]
       IN IF f \notin fs \/ oc[f] = "rename_fail"
          THEN RenameLoop(Tail(order), oc, dest, fs, TRUE)
          ELSE IF oc[f] = "move_fail"
          THEN RenameLoop(Tail(order), oc, dest, (fs \ {f}) \cup {new_path}, TRUE)
          ELSE RenameLoop(Tail(order), oc, dest, (fs \ {f}) \cup {moved}, bad)

(* lines 162-182: chdir to fastq/, rename and move what it holds.          *)
Batch_Rename ==
  /\ wf = "batch" /\ pc = "b_rename"
  /\ LET fd == Abs(fastq_dir) IN
     \/ \E c \in Outcomes :
          /\ c = "fail" \/ fd \notin dirs
          /\ faults' = faults + Cost(c)
          /\ CaughtByOuter("chdir_fastq")
          /\ UNCHANGED <<cwd, files>>
     \/ fd \in dirs /\
          LET listed == FilesIn(fd, "fastq.gz") IN
          /\ cwd' = fd
          /\ \E order \in Orders(listed), oc \in FileOutcomes(listed) :
               LET r == RenameLoop(order, oc, AbsAt(project_runs_dir, fd),
                                   files, FALSE)
               IN /\ files' = r.files
                  /\ faults' = faults + NumFailures(oc)
                  /\ StageDone("rename", "b_cleanup", r.bad)
  /\ UNCHANGED <<wf, dirs, runfiles, raised, invoked, batchArgs, singleVars,
                 csvVars>>

(* lines 184-189: an empty fastq/ is removed; the pair is completed.       *)
Batch_Cleanup ==
  /\ wf = "batch" /\ pc = "b_cleanup"
  /\ LET fd == Abs(fastq_dir)
         Completed == /\ pc' = "b_loop" /\ idx' = idx + 1 /\ last' = "cleanup"
                      /\ failed' = failed
                      /\ log' = log \cup {<<"info", "completed">>}
     IN
     IF fd \notin dirs
     THEN CaughtByOuter("cleanup") /\ UNCHANGED <<dirs, faults>>
     ELSE IF \E f \in files : Within(f.dir, fd)
     THEN Completed /\ UNCHANGED <<dirs, faults>>
     ELSE \E o \in Outcomes :
            /\ faults' = faults + Cost(o)
            /\ IF o = "ok"
               THEN dirs' = dirs \ {fd} /\ Completed
               ELSE dirs' = dirs /\ CaughtByOuter("cleanup")
  /\ UNCHANGED <<wf, cwd, files, runfiles, raised, invoked, batchArgs,
                 singleVars, csvVars>>

BatchNext ==
  \/ Batch_Start \/ Batch_LoopHead \/ Batch_RunsOnly \/ Batch_MkProjectDir
  \/ Batch_Resolve \/ Batch_Prefetch \/ Batch_Flatten \/ Batch_Convert
  \/ Batch_Compress \/ Batch_MkDirs \/ Batch_MoveFastq \/ Batch_MoveSra
  \/ Batch_Rename \/ Batch_Cleanup

----------------------------------------------------------------------------
(* Single-study workflow: download_sra_data of download_runs_file.py       *)

MaxInvocations == 2
RunLists == {{}, {"R1"}, {"R1", "R2"}}

original_dir == Home
s_study_name == study_names[1]
s_output_path == AbsAt(output_folder, original_dir)
study_dir == Append(s_output_path, s_study_name)
temp_dir == Append(study_dir, "temp")
s_fastq_dir == Append(study_dir, "fastq")
s_sra_dir == Append(study_dir, "sra")
s_new_name(f) == [f EXCEPT !.pre = <<s_study_name>> \o f.pre]

InitSingle ==
  /\ wf = "single" /\ pc = "s_start"
  /\ output_folder \in OutputFolders
  /\ study_given = TRUE /\ study_names \in {<<s>> : s \in Studies}
  /\ runs_file \in {[exists |-> FALSE, content |-> {}]}
                     \cup {[exists |-> TRUE, content |-> c] : c \in RunLists}
  /\ invocation = 1 /\ move_failed = {}
  /\ project_ids = <<>> /\ runs_only = FALSE /\ idx = 0
  /\ rows = <<>> /\ row = 1 /\ csv_studies = <<>> /\ csv_projects = <<>>
  /\ warned = {}

(* lines 24-50: the five directories, in this order, before the try.       *)
StartDirs == <<s_output_path, study_dir, temp_dir, s_fastq_dir, s_sra_dir>>
Single_Start ==
  /\ wf = "single" /\ pc = "s_start"
  /\ \E k \in (IF faults < MaxFaults THEN 0..Len(StartDirs) ELSE {0}) :
       IF k = 0
       THEN /\ dirs' = dirs \cup Prefixes(s_output_path)
                         \cup {StartDirs[i] : i \in 1..Len(StartDirs)}
            /\ pc' = "s_prefetch" /\ UNCHANGED <<raised, faults>>
       ELSE /\ dirs' = dirs
                 \cup (IF k > 1 THEN Prefixes(s_output_path) ELSE {})
                 \cup {StartDirs[i] : i \in 1..(k - 1)}
            /\ pc' = "done" /\ raised' = "OSError" /\ faults' = faults + 1
  /\ last' = "start"
  /\ UNCHANGED <<wf, cwd, files, runfiles, log, invoked, failed, idx, batchArgs,
                 singleVars, csvVars>>

(* a stage inside the try ran to its end.                                  *)
S_Done(stage, next) ==
  /\ pc' = next /\ last' = stage /\ raised' = raised /\ failed' = failed
(* variant: the exception is reported but not raised again.               *)
S_Swallow(stage, next, kind) == S_Done(stage, next)
(* lines 132-138: the exception is reported and raised again; finally runs. *)
S_Raise(stage, next, kind) ==
  /\ pc' = "s_finally" /\ last' = stage /\ raised' = kind
  /\ failed' = failed \cup {stage}

(* lines 53-67: chdir to temp, the runs file must exist, prefetch.         *)
Single_Prefetch ==
  /\ wf = "single" /\ pc = "s_prefetch"
  /\ cwd' = temp_dir
  /\ IF ~runs_file.exists
     THEN /\ S_Raise("prefetch", "s_flatten", "FileNotFoundError")
          /\ log' = log \cup {<<"stderr", "prefetch">>}
          /\ UNCHANGED <<dirs, files, faults, invoked>>
     ELSE LET accs == runs_file.content
              Fetched(S) == {File(Append(temp_dir, a), a, <<>>, "sra") : a \in S}
          IN
          /\ invoked' = invoked \cup ParallelStarts(accs, "prefetch")
          /\ \E o \in (IF accs = {} THEN {"ok"} ELSE Outcomes) :
               /\ faults' = faults + Cost(o)
               /\ IF o = "ok"
                  THEN /\ files' = files \cup Fetched(accs)
                       /\ dirs' = dirs \cup {Append(temp_dir, a) : a \in accs}
                       /\ S_Done("prefetch", "s_flatten") /\ log' = log
                  ELSE \E got \in Partial(accs) :
                       /\ files' = files \cup Fetched(got)
                       /\ dirs' = dirs \cup {Append(temp_dir, a) : a \in got}
                       /\ S_Raise("prefetch", "s_flatten", "CalledProcessError")
                       /\ log' = log \cup {<<"stderr", "prefetch">>}
  /\ UNCHANGED <<wf, runfiles, idx, batchArgs, singleVars, csvVars>>

MoveOutcomes(S) == {oc \in [S -> {"ok", "move_fail"}] :
                      faults + NumFailures(oc) =< MaxFaults}
Failures(stage, oc) == {<<stage, f.acc>> : f \in {x \in DOMAIN oc : oc[x] # "ok"}}

(* a loop of shutil.move calls, each in its own try (lines 77-83, 107-114, *)
(* 122-128): target[f] is where f goes; a failed move leaves f in place.   *)
S_MoveEach(stage, next, target) ==
  /\ LET S == DOMAIN target IN
     \E oc \in MoveOutcomes(S) :
       /\ files' = (files \ S) \cup {IF oc[f] = "ok" THEN target[f] ELSE f : f \in S}
       /\ faults' = faults + NumFailures(oc)
       /\ move_failed' = move_failed \cup Failures(stage, oc)
       /\ log' = log \cup (IF NumFailures(oc) > 0 THEN {<<"stderr", stage>>} ELSE {})
                       \cup (IF S = {} THEN {<<"stdout", stage>>} ELSE {})
  /\ S_Done(stage, next)
  /\ UNCHANGED <<wf, cwd, dirs, runfiles, invoked, idx, batchArgs, runs_file,
                 invocation, csvVars>>

(* lines 69-83: every .sra below temp is moved into temp.                  *)
Single_Flatten ==
  /\ wf = "single" /\ pc = "s_flatten"
  /\ S_MoveEach("flatten", "s_convert",
                [f \in FilesUnder(temp_dir, "sra") |-> [f EXCEPT !.dir = temp_dir]])

(* lines 85-90 and 100-101: fastq-dump when temp holds .sra files.         *)
Single_Convert ==
  /\ wf = "single" /\ pc = "s_convert"
  /\ LET sra_files == FilesIn(temp_dir, "sra") IN
     IF sra_files = {}
     THEN /\ S_Done("convert", "s_mvfastq")
          /\ log' = log \cup {<<"stdout", "convert">>}
          /\ UNCHANGED <<files, faults, invoked>>
     ELSE /\ invoked' = invoked \cup ParallelStarts(sra_files, "fastq-dump")
          /\ \E o \in Outcomes :
               /\ faults' = faults + Cost(o)
               /\ IF o = "ok"
                  THEN /\ files' = files \cup Converted(sra_files, cwd)
                       /\ S_Done("convert", "s_compress") /\ log' = log
                  ELSE \E S \in Partial(sra_files) :
                       /\ files' = files \cup Converted(S, cwd)
                       /\ S_Raise("convert", "s_compress", "CalledProcessError")
                       /\ log' = log \cup {<<"stderr", "convert">>}
  /\ UNCHANGED <<wf, cwd, dirs, runfiles, idx, batchArgs, singleVars, csvVars>>

(* lines 92-99: pigz when temp holds .fastq files.                         *)
Single_Compress ==
  /\ wf = "single" /\ pc = "s_compress"
  /\ LET fastq_files == FilesIn(temp_dir, "fastq") IN
     IF fastq_files = {}
     THEN /\ S_Done("compress", "s_mvfastq")
          /\ log' = log \cup {<<"stdout", "compress">>}
          /\ UNCHANGED <<files, faults, invoked>>
     ELSE /\ invoked' = invoked \cup {"pigz"}
          /\ \E o \in Outcomes :
               /\ faults' = faults + Cost(o)
               /\ IF o = "ok"
                  THEN /\ files' = (files \ fastq_files) \cup Compressed(fastq_files)
                       /\ S_Done("compress", "s_mvfastq") /\ log' = log
                  ELSE \E S \in Partial(fastq_files) :
                       /\ files' = (files \ S) \cup Compressed(S)
                       /\ S_Raise("compress", "s_mvfastq", "CalledProcessError")
                       /\ log' = log \cup {<<"stderr", "compress">>}
  /\ UNCHANGED <<wf, cwd, dirs, runfiles, idx, batchArgs, singleVars, csvVars>>

(* lines 103-116: each .fastq.gz goes to fastq/{study_name}_{name}.        *)
Single_MoveFastq ==
  /\ wf = "single" /\ pc = "s_mvfastq"
  /\ S_MoveEach("mvfastq", "s_mvsra",
                [f \in FilesIn(temp_dir, "fastq.gz") |->
                   [s_new_name(f) EXCEPT !.dir = s_fastq_dir]])

(* lines 118-130: each .sra goes to sra/.                                  *)
Single_MoveSra ==
  /\ wf = "single" /\ pc = "s_mvsra"
  /\ S_MoveEach("mvsra", "s_finally",
                [f \in FilesIn(temp_dir, "sra") |-> [f EXCEPT !.dir = s_sra_dir]])

(* lines 139-152: back to the original directory; temp is removed, an      *)
(* OSError of rmtree is reported and swallowed; a pending exception goes   *)
(* on to the caller.                                                       *)
Single_Finally ==
  /\ wf = "single" /\ pc = "s_finally"
  /\ cwd' = original_dir
  /\ pc' = "done"
  /\ IF temp_dir \in dirs
     THEN \E o \in Outcomes :
            /\ faults' = faults + Cost(o)
            /\ IF o = "ok"
               THEN /\ dirs' = {d \in dirs : ~Within(d, temp_dir)}
                    /\ files' = {f \in files : ~Within(f.dir, temp_dir)}
                    /\ log' = log
               ELSE /\ UNCHANGED <<dirs, files>>
                    /\ log' = log \cup {<<"stderr", "cleanup">>}
     ELSE UNCHANGED <<dirs, files, faults, log>>
  /\ UNCHANGED <<wf, runfiles, raised, invoked, failed, last, idx, batchArgs,
                 singleVars, csvVars>>

(* the program is started again on the same arguments and file system.     *)
Single_Reinvoke ==
  /\ wf = "single" /\ pc = "done" /\ invocation < MaxInvocations
  /\ invocation' = invocation + 1
  /\ pc' = "s_start" /\ cwd' = original_dir /\ raised' = "none"
  /\ log' = {} /\ invoked' = {} /\ failed' = {} /\ last' = "none"
  /\ move_failed' = {}
  /\ UNCHANGED <<wf, dirs, files, runfiles, faults, idx, batchArgs, runs_file,
                 csvVars>>

(* main (lines 155-163) does not catch: an exception ends the process      *)
(* with status 1.                                                          *)
ExitStatus == IF raised = "none" THEN 0 ELSE 1

SingleNext ==
  \/ Single_Start \/ Single_Prefetch \/ Single_Flatten \/ Single_Convert
  \/ Single_Compress \/ Single_MoveFastq \/ Single_MoveSra \/ Single_Finally
  \/ Single_Reinvoke

----------------------------------------------------------------------------
(* CSV input: read_csv_input of download_raw_reads.py.  A field is a       *)
(* sequence of characters.                                                 *)

MaxRows == 2
MaxRowLen == 2
Fields == {<<>>, <<" ">>, <<"a">>, <<" ", "b", " ">>}
Rows == UNION {[1..k -> Fields] : k \in 0..MaxRowLen}

(* str.strip(): leading and trailing blanks go.                            *)
RECURSIVE LStrip(_)
LStrip(s) == IF s # <<>> /\ Head(s) = " " THEN LStrip(Tail(s)) ELSE s
RECURSIVE RStrip(_)
RStrip(s) == IF s # <<>> /\ s[Len(s)] = " "
             THEN RStrip(SubSeq(s, 1, Len(s) - 1)) ELSE s
Strip(s) == RStrip(LStrip(s))

InitCsv ==
  /\ wf = "csv" /\ pc = "c_open"
  /\ rows \in UNION {[1..k -> Rows] : k \in 0..MaxRows}
  /\ row = 1 /\ csv_studies = <<>> /\ csv_projects = <<>> /\ warned = {}
  /\ project_ids = <<>> /\ study_given = FALSE /\ study_names = <<>>
  /\ output_folder = [abs |-> TRUE, comps |-> <<"data">>]
  /\ runs_only = FALSE /\ idx = 0
  /\ runs_file = [exists |-> FALSE, content |-> {}]
  /\ invocation = 1 /\ move_failed = {}

csvRest == <<wf, cwd, dirs, files, runfiles, invoked, failed, last, idx,
             batchArgs, singleVars, rows>>

(* lines 213-215 and 234-236: the file is opened; an error is logged and   *)
(* raised again.                                                           *)
Csv_Open ==
  /\ wf = "csv" /\ pc = "c_open"
  /\ \E o \in Outcomes :
       /\ faults' = faults + Cost(o)
       /\ IF o = "ok"
          THEN pc' = "c_row" /\ UNCHANGED <<raised, log>>
          ELSE /\ pc' = "done" /\ raised' = "OSError"
               /\ log' = log \cup {<<"error", "read_csv">>}
  /\ UNCHANGED <<csvRest, row, csv_studies, csv_projects, warned>>

(* lines 216-226: one row.                                                 *)
Csv_Row ==
  /\ wf = "csv" /\ pc = "c_row" /\ row =< Len(rows)
  /\ row' = row + 1
  /\ LET r == rows[row] IN
     IF Len(r) < 2
     THEN /\ warned' = warned \cup {row}
          /\ log' = log \cup {<<"warning", "row">>}
          /\ UNCHANGED <<csv_studies, csv_projects>>
     ELSE LET name == Strip(r[1])
              project_id == Strip(r[2])
          IN /\ IF name # <<>> /\ project_id # <<>>
                THEN /\ csv_studies' = Append(csv_studies, name)
                     /\ csv_projects' = Append(csv_projects, project_id)
                ELSE UNCHANGED <<csv_studies, csv_projects>>
             /\ UNCHANGED <<warned, log>>
  /\ UNCHANGED <<csvRest, pc, raised, faults>>

(* lines 228-236: no valid row is an error, otherwise the lists return.    *)
Csv_End ==
  /\ wf = "csv" /\ pc = "c_row" /\ row > Len(rows)
  /\ pc' = "done"
  /\ IF csv_studies = <<>> \/ csv_projects = <<>>
     THEN raised' = "ValueError" /\ log' = log \cup {<<"error", "read_csv">>}
     ELSE raised' = raised /\ log' = log \cup {<<"info", "read_csv">>}
  /\ UNCHANGED <<csvRest, row, csv_studies, csv_projects, warned, faults>>

CsvNext == Csv_Open \/ Csv_Row \/ Csv_End

Init == InitCommon /\ (InitBatch \/ InitSingle)
Next == BatchNext \/ SingleNext
Spec == Init /\ [][Next]_vars

InitC == InitCommon /\ InitCsv
SpecCsv == InitC /\ [][CsvNext]_vars

----------------------------------------------------------------------------
(* Properties.                                                             *)

Batch == wf = "batch"
Single == wf = "single"
(* the pair whose iteration has just ended (control is back at the loop    *)
(* head, or the function has returned after the last pair).                *)
IterationEnded == Batch /\ pc \in {"b_loop", "done"} /\ idx > 1 /\ raised = "none"
Prev == idx - 1
(* the iteration ran to "Completed processing project" (line 189).         *)
IterationCompleted == IterationEnded /\ ~runs_only /\ last = "cleanup"
InIteration ==
  Batch /\ pc \notin {"b_start", "b_loop", "done"}

(* C1: in the batch workflow no failure while a pair is processed ends     *)
(* download_sra_data before the last pair has been attempted: once the     *)
(* loop has been entered, the function is left only after every pair of    *)
(* the list had its turn.                                                  *)
C1_EveryPairAttempted ==
  (Batch /\ pc = "done" /\ idx >= 1) => idx > NumPairs

(* C2: when a call of the single-study download_sra_data has ended,        *)
(* normally or by an exception, {output}/{study}/temp does not exist.      *)
C2_TempRemoved ==
  (Single /\ pc = "done") => temp_dir \notin dirs

(* C3: once the organization stage of a study has completed (here: with no *)
(* failure in that pair's processing), every compressed converted file of  *)
(* the study carries the study prefix exactly once and lies in             *)
(* {output}/{study}/ (batch) or {output}/{study}/fastq/ (single study),    *)
(* also when the staging directory held files of an earlier run.           *)
C3_PrefixedOnceInPlace ==
  /\ (IterationCompleted /\ failed = {}) =>
       \A f \in FilesUnder(Abs(ProjectDirAt(Prev)), "fastq.gz")
                  \cup FilesIn(Abs(ProjectRunsDirAt(Prev)), "fastq.gz") :
          f.pre = <<StudyAt(Prev)>> /\ f.dir = Abs(ProjectRunsDirAt(Prev))
  /\ (Single /\ pc = "s_finally" /\ raised = "none" /\ move_failed = {}) =>
       \A f \in FilesUnder(study_dir, "fastq.gz") :
          f.pre = <<s_study_name>> /\ f.dir = s_fastq_dir

(* the accessions listed in the run-list file of the pair just processed.  *)
PrevRunList ==
  UNION {r.content : r \in {x \in runfiles :
            x.dir = Abs(ProjectRunsDirAt(Prev)) /\ x.project = ProjectAt(Prev)}}
(* directory d holds exactly one .sra per listed accession, and no .sra of *)
(* the pair's project directory lies outside d.                            *)
SraExactlyIn(d) ==
  /\ {f.acc : f \in FilesIn(d, "sra")} = PrevRunList
  /\ Cardinality(FilesIn(d, "sra")) = Cardinality(PrevRunList)
  /\ FilesUnder(Abs(ProjectDirAt(Prev)), "sra") \subseteq FilesIn(d, "sra")

Mismatch == study_given /\ Len(study_names) # Len(project_ids)
NothingProcessed ==
  /\ invoked = {} /\ runfiles = {} /\ files = {}
  /\ dirs \subseteq {<<>>, Home} \cup Prefixes(Abs(output_path))
  /\ pc \in {"b_start", "done"}

(* C5 as stated: with study names given in a number different from the     *)
(* project identifiers, the call fails with the input-validation error,    *)
(* no external tool is started and no study directory or run-list file is  *)
(* created.                                                                *)
C5_ValidationError ==
  (Batch /\ Mismatch) =>
     NothingProcessed /\ (pc = "done" => raised = "ValueError")

(* C5 amended: the call fails before any project is processed, with the    *)
(* input-validation error when the output folder could be created and      *)
(* with the error of that creation otherwise.                              *)
C5_FailsBeforeProcessing ==
  (Batch /\ Mismatch) =>
     /\ NothingProcessed
     /\ pc = "done" =>
          \/ raised = "ValueError" /\ Abs(output_path) \in dirs
          \/ raised = "OSError" /\ Abs(output_path) \notin dirs

C5_Witness ==
  /\ Batch /\ Len(project_ids) = 2 /\ study_given /\ Len(study_names) = 1
  /\ pc = "done" /\ raised = "ValueError" /\ NothingProcessed

(* the rows read_csv_input must keep, in order, and those it must skip.    *)
ValidRow(r) == Len(r) >= 2 /\ Strip(r[1]) # <<>> /\ Strip(r[2]) # <<>>
RECURSIVE Column(_, _)
Column(rs, c) ==
  IF rs = <<>> THEN <<>>
  ELSE IF ValidRow(Head(rs)) THEN <<Strip(Head(rs)[c])>> \o Column(Tail(rs), c)
  ELSE Column(Tail(rs), c)

(* C6: read_csv_input returns exactly the valid rows, in order and paired; *)
(* every other row is skipped with a warning; no valid row is an error.    *)
C6_ValidRowsWarnOthers ==
  (wf = "csv" /\ pc = "done" /\ raised # "OSError") =>
     /\ csv_studies = Column(rows, 1) /\ csv_projects = Column(rows, 2)
     /\ warned = {i \in 1..Len(rows) : ~ValidRow(rows[i])}
     /\ (raised = "ValueError") <=> (Column(rows, 1) = <<>>)

(* C7 as stated: any failure while a project is processed ends that        *)
(* project's iteration, no later stage is executed for it.                 *)
C7_AnyFailureEndsIteration ==
  (Batch /\ failed # {}) => pc \in {"b_loop", "done"}

EndingStages == {"runs_only", "mkproject", "resolve", "chdir", "prefetch",
                 "mkdirs", "chdir_fastq", "cleanup"}
LoggedStages == {"flatten", "convert", "compress", "mvfastq", "mvsra", "rename"}

(* C7 amended: a failure of resolution, of retrieval or of a directory     *)
(* operation of the script itself ends the iteration at that stage; a      *)
(* failure of flattening, conversion, compression, of the mv commands or   *)
(* of a rename/move is logged and the iteration runs on to its last stage. *)
C7_EndingAndLoggedFailures ==
  Batch =>
    /\ failed \subseteq EndingStages \cup LoggedStages
    /\ (failed \cap EndingStages # {}) =>
          pc \in {"b_loop", "done"} /\ failed \cap EndingStages = {last}
    /\ (IterationEnded /\ ~runs_only /\ failed \cap EndingStages = {}) =>
          last = "cleanup" /\ <<"info", "completed">> \in log
    /\ \A st \in failed \cap LoggedStages : <<"error", st>> \in log

C7_Witness ==
  IterationCompleted /\ "convert" \in failed /\ idx =< NumPairs

FatalStages == {"prefetch", "convert", "compress"}
InPlace(acc) ==
  /\ File(s_sra_dir, acc, <<>>, "sra") \in files
  /\ File(s_fastq_dir, acc, <<s_study_name>>, "fastq.gz") \in files
MoveFailedFor(acc) == \E st \in {"flatten", "mvfastq", "mvsra"} : <<st, acc>> \in move_failed

(* C9: in the single-study workflow a missing runs file or a failed        *)
(* prefetch, fastq-dump or pigz ends the run there: no later stage runs,   *)
(* nothing is moved to fastq/ or sra/, the exception reaches the caller    *)
(* and the exit status is not 0; a failed move of one file is reported,    *)
(* the other files are still moved and the run ends normally.              *)
C9_FatalStagesAndMoves ==
  Single =>
    /\ (\E st \in FatalStages : <<"stderr", st>> \in log) =>
          /\ pc \in {"s_finally", "done"}
          /\ raised \in {"FileNotFoundError", "CalledProcessError"}
          /\ failed = {last} /\ last \in FatalStages
          /\ ExitStatus # 0
    /\ (invocation = 1 /\ raised # "none") =>
          FilesUnder(s_fastq_dir, "fastq.gz") \cup FilesUnder(s_sra_dir, "sra") = {}
    /\ (raised # "none" /\ last # "start") =>
          \E st \in FatalStages : <<"stderr", st>> \in log
    /\ (pc = "s_finally" /\ raised = "none") =>
          /\ last = "mvsra"
          /\ \A acc \in runs_file.content : InPlace(acc) \/ MoveFailedFor(acc)
          /\ \A m \in move_failed : <<"stderr", m[1]>> \in log

C9_Witness ==
  /\ Single /\ pc = "done" /\ raised = "none" /\ ExitStatus = 0
  /\ <<"mvsra", "R1">> \in move_failed /\ InPlace("R2")

(* C10: every path the batch workflow uses while it processes a pair       *)
(* denotes the location it denoted in the working directory of the call.   *)
C10_PathsKeepTheirLocation ==
  (Batch /\ (InIteration \/ (pc = "b_loop" /\ idx =< NumPairs))) =>
     /\ Abs(project_runs_dir) = AbsAt(project_runs_dir, Home)
     /\ Abs(project_dir) = AbsAt(project_dir, Home)
     /\ Abs(fastq_dir) = AbsAt(fastq_dir, Home)

====
